---- MODULE Spec2Model ----
(***************************************************************************)
(* Model of testingRandomUser.js (nine DOM checks and runAll) and of the   *)
(* standalone runner script that launches a browser and calls runAll.      *)
(*                                                                         *)
(* The Playwright page is modelled by its current URL and by the content   *)
(* the application serves; every awaited driver call is a step that either *)
(* settles or faults.                                                      *)
(***************************************************************************)
EXTENDS Integers, Sequences, FiniteSets, TLC

(***************************************************************************)
(* Bounds of the explored inputs.                                          *)
(***************************************************************************)
MaxCards == 3
MaxAnchors == 2

(***************************************************************************)
(* JavaScript values.                                                      *)
(***************************************************************************)
Null == [kind |-> "null"]
Undefined == "undefined"
UndefinedObj == [kind |-> "undefined"]
NoVal == [kind |-> "none"]

\* !!x for an element handle or null
Truthy(h) == h # Null

\* obj.key for a plain object modelled as a function on its own keys
Get(obj, key) == IF key \in DOMAIN obj THEN obj[key] ELSE Undefined

\* Math.abs
Abs(n) == IF n < 0 THEN -n ELSE n

\* String.prototype.startsWith / slice(1) on a string held as a tuple of characters
StartsWithHash(s) == Len(s) >= 1 /\ s[1] = "#"
Slice1(s) == IF Len(s) = 0 THEN <<>> ELSE SubSeq(s, 2, Len(s))

(***************************************************************************)
(* Configuration.                                                          *)
(***************************************************************************)
DefaultUrl == "http://localhost:3000"
BlankUrl == "about:blank"
OtherUrl == "http://localhost:8080"
ClickedUrl == "http://localhost:3000/#view"

DefaultSelectors ==
  [ userCard |-> ".user-card",
    userName |-> ".user-name",
    userEmail |-> ".user-email",
    userNationality |-> ".user-nationality",
    refresh |-> "#refresh",
    navbarSecondItem |-> "nav >> nth=1",
    userPhotoImg |-> ".user-photo img",
    documentation |-> "#documentation, .documentation",
    versionsNav |-> "nav >> text=Versioni, nav >> text=RandomUser Versions, nav >> text=versioni",
    accessChart |-> ".access-chart, #access-chart",
    donateSection |-> "#donate, .donate" ]

DEFAULT_OPTIONS == [ url |-> DefaultUrl, selectors |-> DefaultSelectors ]

\* { ...DEFAULT_OPTIONS, ...options } patched per selector key: NOT what the code does
MergeOptions_deep(d, o) ==
  [ k \in (DOMAIN d) \cup (DOMAIN o) |->
      IF k = "selectors" /\ k \in DOMAIN o /\ k \in DOMAIN d /\ o[k] # UndefinedObj
      THEN [ s \in (DOMAIN d[k]) \cup (DOMAIN o[k]) |->
               IF s \in DOMAIN o[k] THEN o[k][s] ELSE d[k][s] ]
      ELSE IF k \in DOMAIN o THEN o[k] ELSE d[k] ]

\* { ...DEFAULT_OPTIONS, ...options }: own keys of options win, key by key, top level only
MergeOptions(d, o) ==
  [ k \in (DOMAIN d) \cup (DOMAIN o) |-> IF k \in DOMAIN o THEN o[k] ELSE d[k] ]

\* sel.<key> where sel = opts.selectors
Sel(opts, key) == Get(opts.selectors, key)

\* the fixed selectors written in the check bodies
SelTitle == "h1, h2, h3, h4, h5, .title"
SelText == "p, span, .desc, .info"
SelNext == "button[aria-label=avanti], button[aria-label=next], button:has-text(Avanti)"
SelPrev == "button[aria-label=indietro], button[aria-label=prev], button:has-text(Indietro)"
SelSlider == "input[type=range]"
SelRadios == "[type=radio][name=gender]"
SelCheckboxes == "[type=checkbox][name=nationality]"
SelAnchors == "a[href^=#]"
SelBars == "[class*=bar], [class*=day], div[data-progress]"
SelRobot == "input[type=checkbox][aria-label*=robot], label:has-text(non sono un robot)"
SelCaptcha == "iframe[src*=recaptcha], iframe[src*=hcaptcha]"

(***************************************************************************)
(* The page content.                                                       *)
(***************************************************************************)
DefaultViewportWidth == 1024
DefaultViewportHeight == 768

IsBlank(u) == u = "" \/ u = BlankUrl

\* what a blank tab holds: nothing
EmptyDom ==
  [ cards |-> <<>>, refresh |-> FALSE, box |-> Null,
    next |-> FALSE, prev |-> FALSE, slider |-> FALSE, radios |-> 0, checkboxes |-> 0,
    navItem |-> FALSE, imgs |-> 0, opacity0 |-> 10, opacity1 |-> 10, transition |-> 0,
    docs |-> FALSE, anchors |-> <<>>, elements |-> {},
    versionsNav |-> FALSE, chart |-> FALSE, bars |-> 0,
    donate |-> FALSE, robot |-> FALSE, captcha |-> FALSE ]

\* the document the handle shows at URL u, given the content the application serves
Dom(u, site) == IF IsBlank(u) THEN EmptyDom ELSE site.dom

\* n handles of one kind
Handles(tag, n) == [ i \in 1..n |-> [kind |-> "element", tag |-> tag, i |-> i] ]

\* page.$$(selector): the elements of the document a selector matches
QueryAll(dom, selector) ==
  CASE selector = DefaultSelectors.userCard ->
         [ i \in 1..Len(dom.cards) |-> [kind |-> "element", tag |-> "card", i |-> i] ]
    [] selector = DefaultSelectors.refresh -> Handles("refresh", IF dom.refresh THEN 1 ELSE 0)
    [] selector = DefaultSelectors.navbarSecondItem -> Handles("nav", IF dom.navItem THEN 1 ELSE 0)
    [] selector = DefaultSelectors.userPhotoImg -> Handles("img", dom.imgs)
    [] selector = DefaultSelectors.documentation -> Handles("docs", IF dom.docs THEN 1 ELSE 0)
    [] selector = DefaultSelectors.versionsNav -> Handles("versions", IF dom.versionsNav THEN 1 ELSE 0)
    [] selector = DefaultSelectors.accessChart -> Handles("chart", IF dom.chart THEN 1 ELSE 0)
    [] selector = DefaultSelectors.donateSection -> Handles("donate", IF dom.donate THEN 1 ELSE 0)
    [] selector = SelNext -> Handles("next", IF dom.next THEN 1 ELSE 0)
    [] selector = SelPrev -> Handles("prev", IF dom.prev THEN 1 ELSE 0)
    [] selector = SelSlider -> Handles("slider", IF dom.slider THEN 1 ELSE 0)
    [] selector = SelRadios -> Handles("radio", dom.radios)
    [] selector = SelCheckboxes -> Handles("checkbox", dom.checkboxes)
    [] OTHER -> <<>>

\* the first of a list of matches, or null
First(all) == IF Len(all) = 0 THEN Null ELSE all[1]

\* page.$(selector): the first match or null
QueryOne(dom, selector) == First(QueryAll(dom, selector))

\* element.$$(selector): the matches inside one element
SubQueryAll(dom, el, selector) ==
  CASE el.tag = "card" /\ selector = DefaultSelectors.userName ->
         Handles("name", IF dom.cards[el.i].name THEN 1 ELSE 0)
    [] el.tag = "card" /\ selector = DefaultSelectors.userEmail ->
         Handles("email", IF dom.cards[el.i].email THEN 1 ELSE 0)
    [] el.tag = "card" /\ selector = DefaultSelectors.userNationality ->
         Handles("nat", IF dom.cards[el.i].nat THEN 1 ELSE 0)
    [] el.tag = "card" /\ selector = SelTitle ->
         Handles("title", IF dom.cards[el.i].title THEN 1 ELSE 0)
    [] el.tag = "card" /\ selector = SelText ->
         Handles("text", IF dom.cards[el.i].text THEN 1 ELSE 0)
    [] el.tag = "docs" /\ selector = SelAnchors ->
         [ i \in 1..Len(dom.anchors) |-> [kind |-> "element", tag |-> "a", i |-> i] ]
    [] el.tag = "chart" /\ selector = SelBars -> Handles("bar", dom.bars)
    [] el.tag = "donate" /\ selector = SelRobot -> Handles("robot", IF dom.robot THEN 1 ELSE 0)
    [] el.tag = "donate" /\ selector = SelCaptcha -> Handles("captcha", IF dom.captcha THEN 1 ELSE 0)
    [] OTHER -> <<>>

\* element.$(selector)
SubQueryOne(dom, el, selector) == First(SubQueryAll(dom, el, selector))

(***************************************************************************)
(* A CSS selector built as `#${id}`: a hash token takes the identifier up  *)
(* to the first '.', and what follows it are class names.                  *)
(***************************************************************************)
\* the least element of a non-empty set of positions
MinOf(S) == CHOOSE i \in S : \A j \in S : i <= j

\* where the n-th piece of s ends: at its n-th dot, or past the end of s
CutAt(s, dots, n) ==
  IF n = 0 THEN 0
  ELSE IF n > Cardinality(dots) THEN Len(s) + 1
  ELSE CHOOSE i \in dots : Cardinality({ j \in dots : j < i }) = n - 1

\* the pieces of s between the positions `dots`, in order
Pieces(s, dots) ==
  [ n \in 1..(Cardinality(dots) + 1) |->
      SubSeq(s, CutAt(s, dots, n - 1) + 1, CutAt(s, dots, n) - 1) ]

\* the pieces of s between its dots, in order
SplitDots(s) == Pieces(s, { i \in 1..Len(s) : s[i] = "." })

\* a compound selector of an id and classes, from its pieces
Compound(parts) ==
  [ valid |-> \A i \in 1..Len(parts) : Len(parts[i]) > 0,
    id |-> parts[1],
    classes |-> { parts[i] : i \in 2..Len(parts) } ]

\* the compound selector the CSS engine reads in '#' \o id: its id and its classes
ParseHashSelector(id) == Compound(SplitDots(id))

\* the first element of the document a compound selector matches, or null
Matching(dom, p) ==
  IF \E e \in dom.elements : e.id = p.id /\ p.classes \subseteq e.classes
  THEN [kind |-> "element", tag |-> "target", i |-> 1]
  ELSE Null

\* page.$(`#${id}`)
QueryHash(dom, id) == Matching(dom, ParseHashSelector(id))

(***************************************************************************)
(* The nine checks.  A check body is computed from the document it sees    *)
(* and its options as the driver calls it awaits, in order, and the value  *)
(* it settles with once all of them have settled.                          *)
(***************************************************************************)
Call(op, selector) == [op |-> op, bad |-> selector = Undefined]
Op(op) == [op |-> op, bad |-> FALSE]

Msg(text, args) == [text |-> text, args |-> args]
Result(ok, message, details) == [kind |-> "result", ok |-> ok, message |-> message, details |-> details]
NoDetails == [none |-> TRUE]
TypeError == [kind |-> "TypeError"]

\* { ok, message: ok ? yes : no, details }
Verdict(ok, yes, no, details) == Result(ok, Msg(IF ok THEN yes ELSE no, <<>>), details)

Ret(calls, result) == [calls |-> calls, result |-> result]

\* the calls of n turns of a loop whose every turn awaits `queries` in order
Turns(queries, n) ==
  [ c \in 1..(Len(queries) * n) |-> queries[((c - 1) % Len(queries)) + 1] ]

\* the last turn of a loop over n items that returns at the first position in
\* `stops`, and falls through after the last item when there is none
LastTurn(stops, n) == IF stops = {} THEN n ELSE MinOf(stops)

\* !name || !email || !nat for one card
CardLacksField(dom, opts, card) ==
  \/ ~Truthy(SubQueryOne(dom, card, Sel(opts, "userName")))
  \/ ~Truthy(SubQueryOne(dom, card, Sel(opts, "userEmail")))
  \/ ~Truthy(SubQueryOne(dom, card, Sel(opts, "userNationality")))

\* the three queries of one turn of the loop of checkUserCards
CardQueries(opts) ==
  << Call("el.$", Sel(opts, "userName")),
     Call("el.$", Sel(opts, "userEmail")),
     Call("el.$", Sel(opts, "userNationality")) >>

\* what checkUserCards returns after the calls cs, given the positions of
\* the cards that lack a field; positions are 1-based, the reported index 0-based
UserCardsExit(cards, cs, lacking) ==
  IF lacking = {}
  THEN Ret(cs, Result(TRUE, Msg("User cards OK", <<>>), [count |-> Len(cards)]))
  ELSE Ret(cs, Result(FALSE, Msg("Card mancano campi obbligatori", << MinOf(lacking) - 1 >>),
                      [index |-> MinOf(lacking) - 1]))

\* the loop makes its three queries on every card up to the first that lacks a field
UserCardsStop(opts, cards, calls, lacking) ==
  UserCardsExit(cards, calls \o Turns(CardQueries(opts), LastTurn(lacking, Len(cards))), lacking)

\* for (i ...) over the cards of checkUserCards: the loop returns at the
\* first card that lacks a field, after its three queries, and falls through
\* after the last card otherwise
UserCardsLoop(dom, opts, cards, calls) ==
  UserCardsStop(opts, cards, calls,
                { i \in 1..Len(cards) : CardLacksField(dom, opts, cards[i]) })

checkUserCards(dom, opts) ==
  LET cards == QueryAll(dom, Sel(opts, "userCard"))
      calls == << Call("$$", Sel(opts, "userCard")) >>
  IN IF Len(cards) = 0
     THEN Ret(calls, Result(FALSE, Msg("Nessuna user card trovata", <<>>), [count |-> 0]))
     ELSE UserCardsLoop(dom, opts, cards, calls)

\* page.viewportSize() || { width: 1024, height: 768 }
ViewportOrDefault(vp) ==
  IF vp = Null THEN [width |-> DefaultViewportWidth, height |-> DefaultViewportHeight] ELSE vp

\* deltaX < viewport.width * 0.25 && deltaY < viewport.height * 0.25, with one axis enough
Centered_eitherAxis(box, viewport) ==
  LET dx2 == Abs(2 * box.x + box.width - viewport.width)
      dy2 == Abs(2 * box.y + box.height - viewport.height)
  IN 2 * dx2 < viewport.width \/ 2 * dy2 < viewport.height

\* deltaX < viewport.width * 0.25 && deltaY < viewport.height * 0.25, where
\* deltaX = |box.x + box.width / 2 - viewport.width / 2|; in integers, all
\* lengths doubled: 2 * deltaX = |2 * box.x + box.width - viewport.width|
Centered(box, viewport) ==
  LET dx2 == Abs(2 * box.x + box.width - viewport.width)
      dy2 == Abs(2 * box.y + box.height - viewport.height)
  IN 2 * dx2 < viewport.width /\ 2 * dy2 < viewport.height

\* the rest of checkRefreshCenters once the bounding box is read, without its null guard
RefreshAfterBox_noGuard(box, viewport) ==
  IF box = Null THEN TypeError
  ELSE Verdict(Centered(box, viewport), "Card centrata", "Card non centrata",
               [viewport |-> viewport])

\* the rest of checkRefreshCenters once the bounding box is read
RefreshAfterBox(box, viewport) ==
  IF box = Null
  THEN Result(FALSE, Msg("Impossibile leggere bounding box della card", <<>>), NoDetails)
  ELSE Verdict(Centered(box, viewport), "Card centrata", "Card non centrata",
               [viewport |-> viewport])

checkRefreshCenters(dom, opts, vp) ==
  LET refresh == QueryOne(dom, Sel(opts, "refresh"))
      c1 == << Call("$", Sel(opts, "refresh")) >>
              \o (IF Truthy(refresh) THEN << Op("click") >> ELSE <<>>)
      card == QueryOne(dom, Sel(opts, "userCard"))
      c2 == Append(c1, Call("$", Sel(opts, "userCard")))
  IN IF ~Truthy(card)
     THEN Ret(c2, Result(FALSE, Msg("Nessuna card trovata dopo refresh", <<>>), NoDetails))
     ELSE Ret(Append(c2, Op("boundingBox")), RefreshAfterBox(dom.box, ViewportOrDefault(vp)))

\* what checkReadableInfo returns after the calls cs, given the positions of
\* the cards without a title or without a text
ReadableExit(dom, cards, cs, lacking) ==
  IF lacking = {}
  THEN Ret(cs, Result(TRUE, Msg("Informazioni di facile comprensione presenti", <<>>), NoDetails))
  ELSE Ret(cs, Result(FALSE, Msg("Card non ha titolo o testo descrittivo", << MinOf(lacking) - 1 >>),
                      [hasTitle |-> SubQueryOne(dom, cards[MinOf(lacking)], SelTitle) # Null,
                       hasText |-> SubQueryOne(dom, cards[MinOf(lacking)], SelText) # Null]))

\* the loop makes its two queries on every card up to the first that lacks one
ReadableStop(dom, cards, calls, lacking) ==
  ReadableExit(dom, cards,
               calls \o Turns(<< Call("el.$", SelTitle), Call("el.$", SelText) >>,
                              LastTurn(lacking, Len(cards))),
               lacking)

\* for (i ...) over the cards of checkReadableInfo: the loop returns at the
\* first card without a title or without a text, after its two queries
ReadableLoop(dom, cards, calls) ==
  ReadableStop(dom, cards, calls,
               { i \in 1..Len(cards) : \/ SubQueryOne(dom, cards[i], SelTitle) = Null
                                       \/ SubQueryOne(dom, cards[i], SelText) = Null })

checkReadableInfo(dom, opts) ==
  LET cards == QueryAll(dom, Sel(opts, "userCard"))
      calls == << Call("$$", Sel(opts, "userCard")) >>
  IN IF Len(cards) = 0
     THEN Ret(calls, Result(FALSE, Msg("Nessuna card per verifica leggibilita", <<>>), NoDetails))
     ELSE ReadableLoop(dom, cards, calls)

\* !!(next && prev): NOT what the code does
NavButtonsOk_both(next, prev) == Truthy(next) /\ Truthy(prev)

\* !!(next || prev)
NavButtonsOk(next, prev) == Truthy(next) \/ Truthy(prev)

\* what checkAdvancedSearchControls returns for what its five queries found
AdvancedSearchResult(next, prev, slider, radios, checkboxes) ==
  Verdict(NavButtonsOk(next, prev) /\ Truthy(slider) /\ Len(radios) >= 2 /\ Len(checkboxes) >= 1,
          "Controlli ricerca presenti", "Controlli ricerca mancanti o insufficienti",
          [next |-> Truthy(next), prev |-> Truthy(prev), slider |-> Truthy(slider),
           radios |-> Len(radios), checkboxes |-> Len(checkboxes)])

checkAdvancedSearchControls(dom, opts) ==
  Ret(<< Call("$", SelNext), Call("$", SelPrev), Call("$", SelSlider),
         Call("$$", SelRadios), Call("$$", SelCheckboxes) >>,
      AdvancedSearchResult(QueryOne(dom, SelNext), QueryOne(dom, SelPrev),
                           QueryOne(dom, SelSlider),
                           QueryAll(dom, SelRadios), QueryAll(dom, SelCheckboxes)))

\* parseFloat(laterOpacity) >= parseFloat(initialOpacity) || transition.length > 0;
\* opacities are held in tenths, the transition by its length
checkNavbarPhotos(dom, opts) ==
  LET nav == QueryOne(dom, Sel(opts, "navbarSecondItem"))
      c1 == << Call("$", Sel(opts, "navbarSecondItem")) >>
      imgs == QueryAll(dom, Sel(opts, "userPhotoImg"))
      c2 == c1 \o << Op("click"), Call("$$", Sel(opts, "userPhotoImg")) >>
  IN IF ~Truthy(nav)
     THEN Ret(c1, Result(FALSE, Msg("Seconda voce navbar non trovata", <<>>), NoDetails))
     ELSE IF Len(imgs) = 0
     THEN Ret(c2, Result(FALSE, Msg("Nessuna foto utente trovata", <<>>), NoDetails))
     ELSE Ret(c2 \o << Op("evaluate"), Op("waitForTimeout"), Op("evaluate"), Op("evaluate") >>,
              Verdict(dom.opacity1 >= dom.opacity0 \/ dom.transition > 0,
                      "Foto con effetto progressivo rilevato", "Effetto progressivo non evidente",
                     [initialOpacity |-> dom.opacity0, laterOpacity |-> dom.opacity1,
                      transition |-> dom.transition]))

\* the calls one turn of the anchors loop awaits: getAttribute, then page.$
\* when href is a non-empty string starting with '#'
AnchorCalls(href) ==
  IF Len(href) > 0 /\ StartsWithHash(href)
  THEN << Op("getAttribute"), [op |-> "$", bad |-> ~ParseHashSelector(Slice1(href)).valid] >>
  ELSE << Op("getAttribute") >>

\* if (href && href.startsWith('#')) { ...; if (!target) return ... }
AnchorDangles(dom, href) ==
  Len(href) > 0 /\ StartsWithHash(href) /\ ~Truthy(QueryHash(dom, Slice1(href)))

\* the calls of the first n turns of the anchors loop, start(i) of them before turn i
AnchorCallsUpTo(dom, anchors, n) ==
  LET start(i) == (i - 1) + Cardinality({ j \in 1..(i - 1) :
                                            Len(AnchorCalls(dom.anchors[anchors[j].i])) = 2 })
      total == start(n + 1)
  IN [ c \in 1..total |->
         LET i == CHOOSE i \in 1..n : start(i) < c /\ c <= start(i + 1)
         IN AnchorCalls(dom.anchors[anchors[i].i])[c - start(i)] ]

\* what checkDocumentationAnchors returns after the calls cs, given the
\* positions of the anchors whose target is not found
AnchorsExit(dom, anchors, cs, dangling) ==
  IF dangling = {}
  THEN Ret(cs, Result(TRUE, Msg("Anchors validi nella documentazione", <<>>),
                      [anchors |-> Len(anchors)]))
  ELSE Ret(cs, Result(FALSE, Msg("Anchor punta a id mancante: ",
                                 << Slice1(dom.anchors[anchors[MinOf(dangling)].i]) >>), NoDetails))

\* the loop runs its turns up to the first anchor whose target is not found
AnchorsStop(dom, anchors, calls, dangling) ==
  AnchorsExit(dom, anchors,
              calls \o AnchorCallsUpTo(dom, anchors, LastTurn(dangling, Len(anchors))),
              dangling)

\* for (i ...) over the anchors of checkDocumentationAnchors: the loop
\* returns at the first anchor whose target is not found
AnchorsLoop(dom, anchors, calls) ==
  AnchorsStop(dom, anchors, calls,
              { i \in 1..Len(anchors) : AnchorDangles(dom, dom.anchors[anchors[i].i]) })

checkDocumentationAnchors(dom, opts) ==
  LET docs == QueryOne(dom, Sel(opts, "documentation"))
      c1 == << Call("$", Sel(opts, "documentation")) >>
  IN IF ~Truthy(docs)
     THEN Ret(c1, Result(FALSE, Msg("Sezione documentazione non trovata", <<>>), NoDetails))
     ELSE LET anchors == SubQueryAll(dom, docs, SelAnchors)
              c2 == Append(c1, Call("el.$$", SelAnchors))
          IN IF Len(anchors) = 0
             THEN Ret(c2, Result(FALSE, Msg("Nessun anchor interno nella documentazione", <<>>), NoDetails))
             ELSE AnchorsLoop(dom, anchors, c2)

checkVersionsNav(dom, opts) ==
  Ret(<< Call("$", Sel(opts, "versionsNav")) >>,
      Verdict(Truthy(QueryOne(dom, Sel(opts, "versionsNav"))),
              "Voce versioni presente", "Voce versioni assente", NoDetails))

checkAccessChart(dom, opts) ==
  LET chart == QueryOne(dom, Sel(opts, "accessChart"))
      c1 == << Call("$", Sel(opts, "accessChart")) >>
  IN IF ~Truthy(chart)
     THEN Ret(c1, Result(FALSE, Msg("Grafico accessi non trovato", <<>>), NoDetails))
     ELSE LET bars == SubQueryAll(dom, chart, SelBars)
          IN Ret(Append(c1, Call("el.$$", SelBars)),
                 Verdict(Len(bars) > 0,
                         "Grafico con elementi progressivi", "Grafico privo di elementi progressivi",
                         [bars |-> Len(bars)]))

checkDonateAntiBot(dom, opts) ==
  LET donate == QueryOne(dom, Sel(opts, "donateSection"))
      c1 == << Call("$", Sel(opts, "donateSection")) >>
  IN IF ~Truthy(donate)
     THEN Ret(c1, Result(FALSE, Msg("Sezione donate non trovata", <<>>), NoDetails))
     ELSE LET robotCheckbox == SubQueryOne(dom, donate, SelRobot)
              captchaFrame == SubQueryOne(dom, donate, SelCaptcha)
          IN Ret(c1 \o << Call("el.$", SelRobot), Call("el.$", SelCaptcha) >>,
                 Verdict(Truthy(robotCheckbox) \/ Truthy(captchaFrame),
                         "Anti-bot presente", "Anti-bot non trovato",
                        [robotCheckbox |-> Truthy(robotCheckbox),
                         captchaFrame |-> Truthy(captchaFrame)]))

\* the order in which runAll awaits the checks, under the keys it stores them
CheckOrder ==
  << "userCards", "refreshCenter", "readableInfo", "advancedSearch", "navbarPhotos",
     "documentation", "versionsNav", "accessChart", "donate" >>

CheckNames == { CheckOrder[i] : i \in 1..Len(CheckOrder) }

\* the statements of check k after `await ensurePage(...)`
Body(k, dom, opts, vp) ==
  CASE k = "userCards" -> checkUserCards(dom, opts)
    [] k = "refreshCenter" -> checkRefreshCenters(dom, opts, vp)
    [] k = "readableInfo" -> checkReadableInfo(dom, opts)
    [] k = "advancedSearch" -> checkAdvancedSearchControls(dom, opts)
    [] k = "navbarPhotos" -> checkNavbarPhotos(dom, opts)
    [] k = "documentation" -> checkDocumentationAnchors(dom, opts)
    [] k = "versionsNav" -> checkVersionsNav(dom, opts)
    [] k = "accessChart" -> checkAccessChart(dom, opts)
    [] k = "donate" -> checkDonateAntiBot(dom, opts)

\* position of the first call the driver rejects for its argument, 0 if none
FirstBad(calls) ==
  LET bad == { i \in 1..Len(calls) : calls[i].bad }
  IN IF bad = {} THEN 0 ELSE MinOf(bad)

\* the calls of r up to its b-th, which the driver rejects, when there is one
Truncate(r, b) == IF b = 0 THEN r ELSE Ret(SubSeq(r.calls, 1, b), NoVal)

\* what check k does after ensurePage: `sel.<key>` on an undefined selectors
\* object throws before any call is made (every check but the advanced
\* search reads sel first); a call the driver rejects is the last one made
RunBody(r) == Truncate(r, FirstBad(r.calls))

Run(k, dom, opts, vp) ==
  IF k # "advancedSearch" /\ opts.selectors = UndefinedObj
  THEN Ret(<<>>, TypeError)
  ELSE RunBody(Body(k, dom, opts, vp))

(***************************************************************************)
(* State.                                                                  *)
(***************************************************************************)
VARIABLES
  url,        \* page.url() of the handle
  site,       \* what the application serves, the viewport of the handle, whether
              \* its controls change the location when clicked (clickNavigates) and
              \* whether the page may die under the driver (faulty)
  options,    \* the options object the caller passes
  defaults,   \* the DEFAULT_OPTIONS object of the module
  mode,       \* what the caller invoked last: "idle", "single" or "runAll"
  rpc,        \* runAll: position in CheckOrder of the check it awaits
  pc,         \* per check: "idle", "goto", "ensured", "body", "returned", "threw"
  ip,         \* per check: driver calls of its body that have settled
  opts,       \* per check: its local opts
  ret,        \* per check: the value its promise settled with
  results,    \* runAll: its local results object
  outcome,    \* what the invocation settled with
  started,    \* the checks called in this invocation, in call order
  navs,       \* page.goto calls made in this invocation
  inflight,   \* driver calls issued and not yet settled
  spc,        \* the runner script: "off", "start", "launched", "try", "finally", "done"
  browser,    \* the runner's browser: "none", "open", "closed"
  console,    \* what the runner wrote
  escaped     \* an error left the runner's async function

vars == << url, site, options, defaults, mode, rpc, pc, ip, opts, ret, results,
           outcome, started, navs, inflight, spc, browser, console, escaped >>

scriptVars == << spc, browser, console, escaped >>
inputVars == << site, options, defaults >>

\* ensurePage navigates whatever the current URL is: NOT what the code does
NeedsGoto_always(current) == TRUE

\* !current || current === 'about:blank'
NeedsGoto(current) == current = "" \/ current = BlankUrl

\* a rejection of the driver call `op` awaited by check k
Fault(k, op) == [kind |-> "fault", check |-> k, op |-> op]

\* r.ok, undefined (falsy) on a value without the property
GetOk(r) == IF "ok" \in DOMAIN r THEN r.ok ELSE FALSE

\* Object.values(results).some(...): NOT what the code does
Overall_some(res) == \E k \in DOMAIN res : res[k] # Null /\ GetOk(res[k])

\* Object.values(results).every(r => r && r.ok)
Overall(res) == \A k \in DOMAIN res : res[k] # Null /\ GetOk(res[k])

Report(res) == [kind |-> "report", overall |-> [ok |-> Overall(res)], details |-> res]
Rejected(reason) == [kind |-> "rejected", reason |-> reason]

\* an await that turns a rejection into a value: NOT what the code does
Rejects_never(st) == FALSE

\* `await p` throws when p is rejected
Rejects(st) == st = "threw"

\* a caller that does not wait for the promise: NOT what the code does
Settled_eager(st) == TRUE

\* the promise of a check has settled, so an await of it resumes
Settled(st) == st \in {"returned", "threw"}

\* where a click leaves the handle: on the same location, or on another view
\* of the application when its controls change the location
AfterClick(u, s) == IF s.clickNavigates /\ ~IsBlank(u) THEN ClickedUrl ELSE u

NoResults == << >>

\* the call of check k: opts is merged, ensurePage reads the URL and issues
\* page.goto or not, all before the first suspension
StartCheck(k, pc0, opts0, ip0, ret0, navs0, started0, inflight0) ==
  LET o == MergeOptions(defaults, options)
      go == NeedsGoto(url)
  IN /\ opts' = [opts0 EXCEPT ![k] = o]
     /\ pc' = [pc0 EXCEPT ![k] = IF go THEN "goto" ELSE "ensured"]
     /\ ip' = [ip0 EXCEPT ![k] = 0]
     /\ ret' = [ret0 EXCEPT ![k] = NoVal]
     /\ navs' = IF go THEN navs0 + 1 ELSE navs0
     /\ started' = Append(started0, k)
     /\ inflight' = IF go THEN inflight0 \cup {[check |-> k, call |-> Call("goto", o.url)]}
                          ELSE inflight0

IdlePc == [k \in CheckNames |-> "idle"]
ZeroIp == [k \in CheckNames |-> 0]
NoOpts == [k \in CheckNames |-> NoVal]
NoRet == [k \in CheckNames |-> NoVal]

CallerFree == spc = "off" /\ (mode = "idle" \/ outcome # NoVal)

\* the caller awaits one check on the handle
CallCheck(k) ==
  /\ CallerFree
  /\ mode' = "single"
  /\ rpc' = 0
  /\ results' = NoResults
  /\ outcome' = NoVal
  /\ StartCheck(k, IdlePc, NoOpts, ZeroIp, NoRet, 0, <<>>, {})
  /\ UNCHANGED << url, inputVars, scriptVars >>

\* runAll up to its first await
EnterRunAll ==
  /\ mode' = "runAll"
  /\ rpc' = 1
  /\ results' = NoResults
  /\ outcome' = NoVal
  /\ StartCheck(CheckOrder[1], IdlePc, NoOpts, ZeroIp, NoRet, 0, <<>>, {})
  /\ UNCHANGED << url, inputVars >>

\* the caller awaits runAll on the handle
CallRunAll ==
  /\ CallerFree
  /\ EnterRunAll
  /\ UNCHANGED scriptVars

GotoCall(k) == [check |-> k, call |-> Call("goto", opts[k].url)]

\* page.goto resolves: ensurePage returns
GotoSettles(k) ==
  /\ pc[k] = "goto"
  /\ ~GotoCall(k).call.bad
  /\ url' = opts[k].url
  /\ pc' = [pc EXCEPT ![k] = "ensured"]
  /\ inflight' = inflight \ {GotoCall(k)}
  /\ UNCHANGED << inputVars, mode, rpc, ip, opts, ret, results, outcome, started, navs, scriptVars >>

\* page.goto rejects: the check's promise is rejected with it
GotoFaults(k) ==
  /\ pc[k] = "goto"
  /\ site.faulty \/ GotoCall(k).call.bad
  /\ pc' = [pc EXCEPT ![k] = "threw"]
  /\ ret' = [ret EXCEPT ![k] = Fault(k, "goto")]
  /\ inflight' = inflight \ {GotoCall(k)}
  /\ UNCHANGED << url, inputVars, mode, rpc, ip, opts, results, outcome, started, navs, scriptVars >>

RunOf(k) == Run(k, Dom(url, site), opts[k], site.viewport)

\* the check settles with value v: a result is returned, anything else is thrown
Finish(k, v) ==
  /\ pc' = [pc EXCEPT ![k] = IF v.kind = "result" THEN "returned" ELSE "threw"]
  /\ ret' = [ret EXCEPT ![k] = v]

\* the continuation after `await ensurePage(...)`, up to the first driver call
BeginBody(k) ==
  /\ pc[k] = "ensured"
  /\ \E r \in {RunOf(k)} :
        IF Len(r.calls) = 0
        THEN /\ Finish(k, r.result)
             /\ UNCHANGED inflight
        ELSE /\ pc' = [pc EXCEPT ![k] = "body"]
             /\ inflight' = inflight \cup {[check |-> k, call |-> r.calls[1]]}
             /\ UNCHANGED ret
  /\ UNCHANGED << url, inputVars, mode, rpc, ip, opts, results, outcome, started, navs, scriptVars >>

\* the awaited driver call resolves: the check runs on to its next call or to its return
CallSettles(k) ==
  /\ pc[k] = "body"
  /\ \E r \in {RunOf(k)} : \E c \in {r.calls[ip[k] + 1]} :
        /\ ~c.bad
        /\ url' = IF c.op = "click" THEN AfterClick(url, site) ELSE url
        /\ ip' = [ip EXCEPT ![k] = ip[k] + 1]
        /\ IF ip[k] + 1 = Len(r.calls)
           THEN /\ Finish(k, r.result)
                /\ inflight' = inflight \ {[check |-> k, call |-> c]}
           ELSE /\ inflight' = (inflight \ {[check |-> k, call |-> c]})
                                 \cup {[check |-> k, call |-> r.calls[ip[k] + 2]]}
                /\ UNCHANGED << pc, ret >>
  /\ UNCHANGED << inputVars, mode, rpc, opts, results, outcome, started, navs, scriptVars >>

\* the awaited driver call rejects: nothing in a check catches it
CallFaults(k) ==
  /\ pc[k] = "body"
  /\ \E c \in {RunOf(k).calls[ip[k] + 1]} :
        /\ site.faulty \/ c.bad
        /\ pc' = [pc EXCEPT ![k] = "threw"]
        /\ ret' = [ret EXCEPT ![k] = Fault(k, c.op)]
        /\ inflight' = inflight \ {[check |-> k, call |-> c]}
  /\ UNCHANGED << url, inputVars, mode, rpc, ip, opts, results, outcome, started, navs, scriptVars >>

\* the caller's await of a single check settles
SingleDone ==
  /\ mode = "single"
  /\ outcome = NoVal
  /\ LET k == started[1]
     IN /\ Settled(pc[k])
        /\ outcome' = IF pc[k] = "threw" THEN Rejected(ret[k])
                      ELSE [kind |-> "value", value |-> ret[k]]
  /\ UNCHANGED << url, inputVars, mode, rpc, pc, ip, opts, ret, results, started, navs,
                  inflight, scriptVars >>

\* runAll's await of check rpc settles: it rejects, or stores the result and
\* calls the next check, or builds the report after the ninth
RunAllNext ==
  /\ mode = "runAll"
  /\ outcome = NoVal
  /\ LET k == CheckOrder[rpc]
     IN /\ Settled(pc[k])
        /\ IF Rejects(pc[k])
           THEN /\ outcome' = Rejected(ret[k])
                /\ UNCHANGED << rpc, pc, ip, opts, ret, results, started, navs, inflight >>
           ELSE /\ results' = [ c \in (DOMAIN results) \cup {k} |->
                                  IF c = k THEN ret[k] ELSE results[c] ]
                /\ IF rpc < Len(CheckOrder)
                   THEN /\ rpc' = rpc + 1
                        /\ StartCheck(CheckOrder[rpc + 1], pc, opts, ip, ret, navs, started, inflight)
                        /\ UNCHANGED outcome
                   ELSE /\ outcome' = Report(results')
                        /\ UNCHANGED << rpc, pc, ip, opts, ret, started, navs, inflight >>
  /\ UNCHANGED << url, inputVars, mode, scriptVars >>

(***************************************************************************)
(* The standalone runner.                                                  *)
(***************************************************************************)
\* await chromium.launch(...)
ScriptLaunch ==
  /\ spc = "start"
  /\ \/ /\ browser' = "open"
        /\ spc' = "launched"
        /\ UNCHANGED escaped
     \/ /\ spc' = "done"
        /\ escaped' = TRUE
        /\ UNCHANGED browser
  /\ UNCHANGED << url, inputVars, mode, rpc, pc, ip, opts, ret, results, outcome, started,
                  navs, inflight, console >>

\* await browser.newPage(), outside the try; then the try block calls runAll
ScriptNewPage ==
  /\ spc = "launched"
  /\ \/ /\ spc' = "try"
        /\ EnterRunAll
        /\ UNCHANGED escaped
     \/ /\ spc' = "done"
        /\ escaped' = TRUE
        /\ UNCHANGED << url, inputVars, mode, rpc, pc, ip, opts, ret, results, outcome,
                        started, navs, inflight >>
  /\ UNCHANGED << browser, console >>

\* await runAll(...) settles: console.log of the report, or catch and
\* console.error; then finally calls browser.close()
ScriptAfterRunAll ==
  /\ spc = "try"
  /\ outcome # NoVal
  /\ console' = Append(console, IF outcome.kind = "report" THEN "log:report" ELSE "error:caught")
  /\ spc' = "finally"
  /\ UNCHANGED << url, inputVars, mode, rpc, pc, ip, opts, ret, results, outcome, started,
                  navs, inflight, browser, escaped >>

\* await browser.close() in the finally block
ScriptClose ==
  /\ spc = "finally"
  /\ browser' = "closed"
  /\ spc' = "done"
  /\ UNCHANGED << url, inputVars, mode, rpc, pc, ip, opts, ret, results, outcome, started,
                  navs, inflight, console, escaped >>

(***************************************************************************)
(* Inputs: the pages and the options the behaviours start from.            *)
(***************************************************************************)
Id_a == << "a" >>
Id_b == << "b" >>
Id_a_dot_b == << "a", ".", "b" >>
Href(id) == << "#" >> \o id

FullCard == [name |-> TRUE, email |-> TRUE, nat |-> TRUE, title |-> TRUE, text |-> TRUE]
CardKinds ==
  { FullCard, [FullCard EXCEPT !.nat = FALSE], [FullCard EXCEPT !.title = FALSE] }

\* centred in the default viewport
CenteredBox == [x |-> 412, y |-> 334, width |-> 200, height |-> 100]
OffBox == [x |-> 700, y |-> 334, width |-> 200, height |-> 100]

Boxes ==
  { [x |-> x, y |-> y, width |-> 200, height |-> 100] :
      x \in {100, 412, 668, 700}, y \in {334, 450, 600} }

Viewports ==
  { Null, [width |-> 1024, height |-> 768], [width |-> 400, height |-> 1000] }

\* a page on which all nine checks pass
FullDom ==
  [ cards |-> << FullCard, FullCard, FullCard >>, refresh |-> TRUE, box |-> CenteredBox,
    next |-> TRUE, prev |-> FALSE, slider |-> TRUE, radios |-> 2, checkboxes |-> 1,
    navItem |-> TRUE, imgs |-> 1, opacity0 |-> 5, opacity1 |-> 10, transition |-> 0,
    docs |-> TRUE, anchors |-> << Href(Id_a) >>, elements |-> { [id |-> Id_a, classes |-> {}] },
    versionsNav |-> TRUE, chart |-> TRUE, bars |-> 2,
    donate |-> TRUE, robot |-> FALSE, captcha |-> TRUE ]

Site(dom) == [dom |-> dom, viewport |-> Null, clickNavigates |-> FALSE, faulty |-> FALSE]
FaultySite(dom) == [dom |-> dom, viewport |-> Null, clickNavigates |-> FALSE, faulty |-> TRUE]
NavigatingSite(dom) == [dom |-> dom, viewport |-> Null, clickNavigates |-> TRUE, faulty |-> FALSE]

\* one page per combination of outcomes of the nine checks
ComboDom(b) ==
  [ FullDom EXCEPT
      !.cards = << [FullCard EXCEPT !.nat = b["userCards"], !.title = b["readableInfo"]] >>,
      !.box = IF b["refreshCenter"] THEN CenteredBox ELSE OffBox,
      !.slider = b["advancedSearch"],
      !.imgs = IF b["navbarPhotos"] THEN 1 ELSE 0,
      !.anchors = IF b["documentation"] THEN << Href(Id_a) >> ELSE << Href(Id_b) >>,
      !.versionsNav = b["versionsNav"],
      !.bars = IF b["accessChart"] THEN 2 ELSE 0,
      !.captcha = b["donate"] ]

ComboSites == { Site(ComboDom(b)) : b \in [CheckNames -> BOOLEAN] }

SeqsUpTo(S, n) == UNION { [1..m -> S] : m \in 0..n }

CardSites == { Site([FullDom EXCEPT !.cards = cs]) : cs \in SeqsUpTo(CardKinds, MaxCards) }

GeometrySites ==
  { [dom |-> [FullDom EXCEPT !.box = bx, !.refresh = rf], viewport |-> vp,
      clickNavigates |-> FALSE, faulty |-> FALSE] :
      bx \in Boxes \cup {Null}, rf \in BOOLEAN, vp \in Viewports }

Hrefs == { Href(Id_a), Href(Id_a_dot_b), Href(<<>>) }
ElementPool ==
  { [id |-> Id_a, classes |-> {}], [id |-> Id_a_dot_b, classes |-> {}],
    [id |-> Id_a, classes |-> {Id_b}] }

DocSites ==
  { Site([FullDom EXCEPT !.docs = FALSE]) }
    \cup { Site([FullDom EXCEPT !.anchors = as, !.elements = es]) :
             as \in SeqsUpTo(Hrefs, MaxAnchors), es \in SUBSET ElementPool }

\* the other probed elements, present or absent, few or many
ControlSites ==
  { Site([FullDom EXCEPT !.next = nx, !.prev = pv, !.slider = sl, !.radios = r, !.checkboxes = c]) :
      nx \in BOOLEAN, pv \in BOOLEAN, sl \in BOOLEAN, r \in {0, 2}, c \in 0..1 }
    \cup { Site([FullDom EXCEPT !.navItem = n, !.imgs = i]) : n \in BOOLEAN, i \in 0..1 }
    \cup { Site([FullDom EXCEPT !.opacity0 = o0, !.opacity1 = o1, !.transition = t]) :
             o0 \in {5, 10}, o1 \in {5, 10}, t \in {0, 16} }
    \cup { Site([FullDom EXCEPT !.chart = ch, !.bars = n]) : ch \in BOOLEAN, n \in 0..2 }
    \cup { Site([FullDom EXCEPT !.donate = d, !.robot = rb, !.captcha = cp]) :
             d \in BOOLEAN, rb \in BOOLEAN, cp \in BOOLEAN }
    \cup { Site([FullDom EXCEPT !.versionsNav = FALSE]) }

\* the scenario of eleven stated elements, with what it leaves unsaid either way
ScenarioDoms ==
  { [FullDom EXCEPT !.cards = << c, c, c >>, !.navItem = n, !.imgs = i] :
      c \in { FullCard, [FullCard EXCEPT !.title = FALSE], [FullCard EXCEPT !.text = FALSE] },
      n \in BOOLEAN, i \in 0..1 }

ScenarioSites ==
  { Site(d) : d \in ScenarioDoms } \cup { FaultySite(d) : d \in ScenarioDoms }
    \cup { NavigatingSite(d) : d \in ScenarioDoms }

OptionsChoices ==
  { << >>,
    [url |-> OtherUrl],
    [url |-> BlankUrl],
    [selectors |-> [userCard |-> DefaultSelectors.userCard]],
    [selectors |-> [DefaultSelectors EXCEPT !.refresh = "#reload"]],
    [url |-> OtherUrl, selectors |-> [userCard |-> DefaultSelectors.userCard,
                                      refresh |-> DefaultSelectors.refresh]],
    [selectors |-> UndefinedObj] }

Cases ==
  { [site |-> s, options |-> << >>, url |-> BlankUrl, spc |-> "off"] :
      s \in ComboSites \cup CardSites \cup GeometrySites \cup DocSites
            \cup ControlSites \cup ScenarioSites }
    \cup { [site |-> s, options |-> o, url |-> u, spc |-> "off"] :
             s \in {Site(FullDom), FaultySite(FullDom), NavigatingSite(FullDom)},
             o \in OptionsChoices, u \in {"", BlankUrl, DefaultUrl} }
    \cup { [site |-> s, options |-> [url |-> u], url |-> BlankUrl, spc |-> "start"] :
             s \in {Site(FullDom), FaultySite(FullDom), FaultySite([FullDom EXCEPT !.docs = FALSE])},
             u \in {DefaultUrl, OtherUrl} }

Init ==
  \E c \in Cases :
    /\ url = c.url
    /\ site = c.site
    /\ options = c.options
    /\ defaults = DEFAULT_OPTIONS
    /\ mode = "idle"
    /\ rpc = 0
    /\ pc = IdlePc
    /\ ip = ZeroIp
    /\ opts = NoOpts
    /\ ret = NoRet
    /\ results = NoResults
    /\ outcome = NoVal
    /\ started = << >>
    /\ navs = 0
    /\ inflight = {}
    /\ spc = c.spc
    /\ browser = "none"
    /\ console = << >>
    /\ escaped = FALSE

Next ==
  \/ \E k \in CheckNames : CallCheck(k)
  \/ CallRunAll
  \/ \E k \in CheckNames : GotoSettles(k)
  \/ \E k \in CheckNames : GotoFaults(k)
  \/ \E k \in CheckNames : BeginBody(k)
  \/ \E k \in CheckNames : CallSettles(k)
  \/ \E k \in CheckNames : CallFaults(k)
  \/ SingleDone
  \/ RunAllNext
  \/ ScriptLaunch
  \/ ScriptNewPage
  \/ ScriptAfterRunAll
  \/ ScriptClose

Spec == Init /\ [][Next]_vars

(***************************************************************************)
(* Properties.                                                             *)
(***************************************************************************)
AllNine ==
  { "userCards", "refreshCenter", "readableInfo", "advancedSearch", "navbarPhotos",
    "documentation", "versionsNav", "accessChart", "donate" }

FailedChecks == { k \in DOMAIN outcome.details : outcome.details[k].ok # TRUE }

\* C1: every Report runAll returns holds the nine results, and its overall.ok
\* is true exactly when each of the nine has ok === true.
C1_OverallIsConjunction ==
  outcome.kind = "report" =>
    /\ DOMAIN outcome.details = AllNine
    /\ outcome.overall.ok \in BOOLEAN
    /\ outcome.overall.ok = TRUE <=> \A k \in AllNine : outcome.details[k].ok = TRUE

\* a report with exactly one failed check among nine
C1_Witness ==
  /\ outcome.kind = "report"
  /\ Cardinality(FailedChecks) = 1
  /\ outcome.overall.ok = FALSE

GotoIssued == \E c \in inflight' \ inflight : c.call.op = "goto"

\* C2: a check calls page.goto only when the handle's URL is empty or
\* about:blank at that moment, and while the handle is at a non-blank URL an
\* invocation of runAll has made at most one navigation.
C2_EntryGuard ==
  /\ [][GotoIssued => (url = "" \/ url = "about:blank")]_vars
  /\ []((mode = "runAll" /\ url # "" /\ url # "about:blank") => navs <= 1)

\* runAll has reported from a handle that its first check navigated, that a
\* click moved since, and that none of the later checks navigated again
C2_Witness ==
  /\ outcome.kind = "report"
  /\ navs = 1
  /\ url = ClickedUrl

\* the elements check k cannot pass without
RequiredPresent(k, dom) ==
  CASE k = "userCards" ->
         Len(dom.cards) >= 1 /\ \A i \in 1..Len(dom.cards) :
            dom.cards[i].name /\ dom.cards[i].email /\ dom.cards[i].nat
    [] k = "refreshCenter" -> Len(dom.cards) >= 1 /\ dom.box # Null
    [] k = "readableInfo" ->
         Len(dom.cards) >= 1 /\ \A i \in 1..Len(dom.cards) : dom.cards[i].title /\ dom.cards[i].text
    [] k = "advancedSearch" ->
         (dom.next \/ dom.prev) /\ dom.slider /\ dom.radios >= 2 /\ dom.checkboxes >= 1
    [] k = "navbarPhotos" -> dom.navItem /\ dom.imgs >= 1
    [] k = "documentation" -> dom.docs /\ Len(dom.anchors) >= 1
    [] k = "versionsNav" -> dom.versionsNav
    [] k = "accessChart" -> dom.chart /\ dom.bars >= 1
    [] k = "donate" -> dom.donate /\ (dom.robot \/ dom.captcha)

DefaultConfiguration == "selectors" \notin DOMAIN options

ThrewIn(k) == k \in AllNine /\ pc[k] = "threw"

\* C4: in runAll, once a check is rejected no later check has been started,
\* no result is stored for it, and runAll settles with nothing but a
\* rejection carrying that same error: the next step of the run is that
\* rejection.
C4_FaultAborts ==
  /\ [](mode = "runAll" =>
          \A i \in 1..Len(started) :
             ThrewIn(started[i]) =>
               /\ i = Len(started)
               /\ started[i] \notin DOMAIN results
               /\ outcome \in { NoVal, Rejected(ret[started[i]]) })
  /\ []((mode = "runAll" /\ outcome.kind = "rejected") =>
          /\ Len(started) >= 1
          /\ ThrewIn(started[Len(started)])
          /\ \A k \in AllNine : pc[k] # "idle" => \E i \in 1..Len(started) : started[i] = k)
  /\ [][(mode = "runAll" /\ outcome = NoVal /\ \E k \in AllNine : pc[k] = "threw")
          => \E k \in AllNine : pc[k] = "threw" /\ outcome' = Rejected(ret[k])]_vars

\* a driver call of the fifth check faulted and runAll was rejected with it
C4_Witness ==
  /\ mode = "runAll"
  /\ outcome.kind = "rejected"
  /\ outcome.reason.kind = "fault"
  /\ outcome.reason.op = "evaluate"
  /\ Len(started) = 5
  /\ DOMAIN results = { "userCards", "refreshCenter", "readableInfo", "advancedSearch" }

FixedOrder ==
  << "userCards", "refreshCenter", "readableInfo", "advancedSearch", "navbarPhotos",
     "documentation", "versionsNav", "accessChart", "donate" >>

\* C5: runAll calls the checks in the fixed order, each at most once and
\* each only after the one before it has returned; a report is built only
\* after all nine have run; and at most one driver call is in flight.
C5_Sequential ==
  /\ Cardinality(inflight) <= 1
  /\ mode = "runAll" =>
       /\ Len(started) <= 9
       /\ started = SubSeq(FixedOrder, 1, Len(started))
       /\ \A i \in 1..(Len(started) - 1) : pc[started[i]] = "returned"
       /\ \A k \in AllNine : pc[k] # "idle" => \E i \in 1..Len(started) : started[i] = k
       /\ outcome.kind = "report" =>
            /\ started = FixedOrder
            /\ \A k \in AllNine : pc[k] = "returned"

\* the first check failed and the battery still ran the other eight
C5_Witness ==
  /\ mode = "runAll"
  /\ outcome.kind = "report"
  /\ outcome.details["userCards"].ok = FALSE
  /\ started = FixedOrder

\* the viewport the comparison uses, and twice the offset of the card's
\* centre from the viewport's centre on each axis
ViewW == IF site.viewport = Null THEN 1024 ELSE site.viewport.width
ViewH == IF site.viewport = Null THEN 768 ELSE site.viewport.height
OffX2 == Abs(2 * site.dom.box.x + site.dom.box.width - ViewW)
OffY2 == Abs(2 * site.dom.box.y + site.dom.box.height - ViewH)

\* the refresh-recenter check has returned after reading the first card's bounding box
RefreshCompared ==
  /\ pc["refreshCenter"] = "returned"
  /\ DefaultConfiguration
  /\ ~IsBlank(url)
  /\ Len(site.dom.cards) >= 1
  /\ site.dom.box # Null

\* C6 as stated: a centred card gives ok:true, and an offset of more than
\* 25% of the viewport WIDTH on either axis gives ok:false.
C6_AsClaimed ==
  RefreshCompared =>
    /\ (OffX2 = 0 /\ OffY2 = 0) => ret["refreshCenter"].ok = TRUE
    /\ (2 * OffX2 > ViewW \/ 2 * OffY2 > ViewW) => ret["refreshCenter"].ok = FALSE

\* C6: a centred card gives ok:true, and an offset of more than 25% of the
\* viewport width on the horizontal axis, or of more than 25% of the viewport
\* height on the vertical axis, gives ok:false; 1024x768 stands in for a
\* viewport size that is unavailable.
C6_Recenter ==
  RefreshCompared =>
    /\ (OffX2 = 0 /\ OffY2 = 0) => ret["refreshCenter"].ok = TRUE
    /\ (2 * OffX2 > ViewW \/ 2 * OffY2 > ViewH) => ret["refreshCenter"].ok = FALSE

\* no viewport size is available and the card is too low in the default one
C6_Witness ==
  /\ RefreshCompared
  /\ site.viewport = Null
  /\ OffX2 = 0
  /\ 2 * OffY2 > 768
  /\ ret["refreshCenter"].ok = FALSE

\* the fragment of an internal anchor is the id of an element of the page
TargetExists(dom, href) == \E e \in dom.elements : e.id = SubSeq(href, 2, Len(href))

\* C7: on a page with a documentation section the check passes exactly when
\* the section has an internal anchor and the fragment of every internal
\* anchor is the id of an existing element; a missing target is named in the
\* message; a section without internal anchors fails with a message of its own.
C7_AnchorsResolve ==
  (pc["documentation"] = "returned" /\ DefaultConfiguration /\ ~IsBlank(url) /\ site.dom.docs) =>
    LET r == ret["documentation"]
        as == site.dom.anchors
    IN /\ r.ok = TRUE <=> (Len(as) >= 1 /\ \A i \in 1..Len(as) : TargetExists(site.dom, as[i]))
       /\ \A i \in 1..Len(as) :
            ((\A j \in 1..(i - 1) : TargetExists(site.dom, as[j])) /\ ~TargetExists(site.dom, as[i]))
              => (r.ok = FALSE /\ r.message.args = << SubSeq(as[i], 2, Len(as[i])) >>)
       /\ Len(as) = 0 => (r.ok = FALSE /\ r.message.text # "Sezione documentazione non trovata")

\* what the end-to-end scenario states, but for its anchor
ScenarioElements(dom) ==
  /\ Len(dom.cards) = 3
  /\ \A i \in 1..Len(dom.cards) : dom.cards[i].name /\ dom.cards[i].email /\ dom.cards[i].nat
  /\ dom.refresh
  /\ dom.box # Null /\ OffX2 = 0 /\ OffY2 = 0
  /\ dom.radios = 2 /\ dom.checkboxes = 1 /\ dom.slider /\ dom.next
  /\ dom.docs /\ Len(dom.anchors) = 1
  /\ dom.versionsNav
  /\ dom.chart /\ dom.bars = 2
  /\ dom.donate /\ dom.captcha

AllNineOk ==
  /\ outcome.overall.ok = TRUE
  /\ \A k \in AllNine : outcome.details[k].ok = TRUE

ScenarioMissing(dom) ==
  /\ \A i \in 1..Len(dom.cards) : dom.cards[i].title /\ dom.cards[i].text
  /\ dom.navItem
  /\ dom.imgs >= 1
  /\ dom.opacity1 >= dom.opacity0 \/ dom.transition > 0

\* the selector '#' + fragment of the anchor matches an element of the page
SelectorResolves(dom, href) ==
  ParseHashSelector(Slice1(href)).valid /\ QueryHash(dom, Slice1(href)) # Null

C9_ShallowMerge ==
  /\ [](\A k \in AllNine :
          opts[k] # NoVal =>
            /\ opts[k].url = IF "url" \in DOMAIN options THEN options.url
                             ELSE "http://localhost:3000"
            /\ opts[k].selectors = IF "selectors" \in DOMAIN options THEN options.selectors
                                   ELSE DefaultSelectors
            /\ DOMAIN options = {} => opts[k] = DEFAULT_OPTIONS)
  /\ [](defaults = DEFAULT_OPTIONS)
  /\ [][options' = options /\ defaults' = defaults]_vars

\* the caller listed two selectors: the check has no selector for the user name
C9_Witness ==
  /\ "selectors" \in DOMAIN options
  /\ opts["userCards"] # NoVal
  /\ DOMAIN opts["userCards"].selectors = { "userCard", "refresh" }
  /\ opts["userCards"].url = OtherUrl
  /\ pc["userCards"] = "threw"

\* C10: when the runner has ended after launching the browser, the browser
\* is closed and no error has left the runner; the report is printed only
\* when runAll returned one.
C10_Teardown ==
  /\ (spc = "done" /\ browser # "none") => (browser = "closed" /\ ~escaped)
  /\ \A i \in 1..Len(console) : console[i] = "log:report" => outcome.kind = "report"

====
